---- MODULE Spec2Model ----
(***************************************************************************)
(* A model of the 2048 solver: the board engine (game2048.py), the N-tuple *)
(* network and move selector (ntuple_network.py) and the TD trainer with   *)
(* its checkpoint/resume protocol (train.py).                              *)
(*                                                                         *)
(* A board is a sequence of board_size rows, each a sequence of board_size *)
(* tile values (0 = empty, otherwise a power of two), as in the source.    *)
(* Sequences are 1-based here; the source's lists are 0-based.             *)
(***************************************************************************)
EXTENDS Integers, Sequences, FiniteSets, TLC

VARIABLES
    board,            \* Game2048.board of the real game
    score,            \* Game2048.score
    game_over,        \* Game2048.game_over
    weights,          \* NTupleNetwork.weights: one table (a function) per tuple
    pc,               \* the statement the program is at ("idle": in no call)
    move_i,           \* position in the list of moves of the for loop over the moves
    best_move,        \* local of get_best_move and of train
    best_value,       \* local of get_best_move and of train
    best_afterstate,  \* local of train
    prev_afterstate,  \* local of train
    prev_value,       \* local of train
    episode,          \* loop variable of train
    num_episodes,     \* argument of train
    save_interval,    \* argument of train
    files,            \* the weights directory: file name -> pickled content
    evaluated,        \* the board get_best_move last handed to
                      \* NTupleNetwork.evaluate, and for which move
    values,           \* the values evaluate returned in the running call of
                      \* get_best_move, in order, each with its move
    trained,          \* number of episodes network.weights has been trained for
    played,           \* number of episodes played since train was entered
    moves,            \* number of moves train made on the real game in the
                      \* episode under way
    updates,          \* number of TD updates train made in that episode
    call,             \* the last call made: its name, argument, receiver before
                      \* the call and result
    calls             \* number of calls made so far (bounded by MaxCalls)

game_vars == <<board, score, game_over>>
loop_vars == <<pc, move_i, best_move, best_value, best_afterstate, evaluated, values>>
train_vars == <<prev_afterstate, prev_value, episode, num_episodes, save_interval>>
store_vars == <<files, trained, played, moves, updates>>
vars == <<board, score, game_over, weights, pc, move_i, best_move, best_value,
          best_afterstate, prev_afterstate, prev_value, episode, num_episodes,
          save_interval, files, evaluated, values, trained, played, moves, updates,
          call, calls>>

\* Game2048.__init__: board_size=4
board_size == 4

Idx == 1..board_size

\* ---------------------------------------------------------------- bounds
\* Largest tile exponent of the rows enumerated for merge_row_left.
MaxExp == 3
\* Number of calls made on a game in one behaviour.
MaxCalls == 1

\* ------------------------------------------------------------- game2048.py

Zeros(n) == [k \in 1..n |-> 0]

RemoveAt(s, k) == SubSeq(s, 1, k - 1) \o SubSeq(s, k + 1, Len(s))

\* The while loop with the scan position left on a freshly merged tile, so
\* that the tile merges again with its new neighbour.
RECURSIVE MergeLoopChained(_, _, _)
MergeLoopChained(new_row, i, score_increase) ==
    IF i < Len(new_row)
    THEN IF new_row[i] = new_row[i + 1]
         THEN MergeLoopChained(RemoveAt([new_row EXCEPT ![i] = 2 * new_row[i]], i + 1),
                               i, score_increase + 2 * new_row[i])
         ELSE MergeLoopChained(new_row, i + 1, score_increase)
    ELSE <<new_row, score_increase>>

\* The while loop of merge_row_left: i is the (1-based) scan position.
RECURSIVE MergeLoop(_, _, _)
MergeLoop(new_row, i, score_increase) ==
    IF i < Len(new_row)
    THEN IF new_row[i] = new_row[i + 1]
         THEN LET merged_val == new_row[i] * 2
              IN  MergeLoop(RemoveAt([new_row EXCEPT ![i] = merged_val], i + 1),
                            i + 1, score_increase + merged_val)
         ELSE MergeLoop(new_row, i + 1, score_increase)
    ELSE <<new_row, score_increase>>

\* merge_row_left(row) = <<new_row, score_increase>>
merge_row_left(row) ==
    LET r == MergeLoop(SelectSeq(row, LAMBDA x : x # 0), 1, 0)
    IN  <<r[1] \o Zeros(board_size - Len(r[1])), r[2]>>

transpose(b) == [j \in 1..Len(b[1]) |-> [i \in 1..Len(b) |-> b[i][j]]]

ReverseSeq(s) == [k \in 1..Len(s) |-> s[Len(s) + 1 - k]]

reverse(b) == [i \in 1..Len(b) |-> ReverseSeq(b[i])]

RECURSIVE SumTo(_, _)
SumTo(s, n) == IF n = 0 THEN 0 ELSE s[n] + SumTo(s, n - 1)

\* sum of the elements of sequence s
SumSeq(s) == SumTo(s, Len(s))

\* The for loop shared by the four branches of make_move: every row of b is
\* merged to the left; the result is <<new_board, total score_increase>>.
MergeRows(b) ==
    LET merged == [i \in Idx |-> merge_row_left(b[i])]
    IN  <<[i \in Idx |-> merged[i][1]], SumSeq([i \in Idx |-> merged[i][2]])>>

\* Lines 83-117 with the rows of a move down not reversed, as for a move up.
ShiftDownAsUp(b, direction) ==
    CASE direction = "left"  -> MergeRows(b)
      [] direction = "right" -> LET m == MergeRows(reverse(b))
                                IN  <<reverse(m[1]), m[2]>>
      [] direction = "up"    -> LET m == MergeRows(transpose(b))
                                IN  <<transpose(m[1]), m[2]>>
      [] direction = "down"  -> LET m == MergeRows(transpose(b))
                                IN  <<transpose(m[1]), m[2]>>
      [] OTHER               -> <<b, 0>>

\* Lines 83-117 of make_move: the board and the score gain after the merge,
\* before any spawn. A direction that matches no branch leaves both alone.
Shift(b, direction) ==
    CASE direction = "left"  -> MergeRows(b)
      [] direction = "right" -> LET m == MergeRows(reverse(b))
                                IN  <<reverse(m[1]), m[2]>>
      [] direction = "up"    -> LET m == MergeRows(transpose(b))
                                IN  <<transpose(m[1]), m[2]>>
      [] direction = "down"  -> LET m == MergeRows(reverse(transpose(b)))
                                IN  <<transpose(reverse(m[1])), m[2]>>
      [] OTHER               -> <<b, 0>>

EmptyCells(b) == {c \in Idx \X Idx : b[c[1]][c[2]] = 0}

\* add_random_tile choosing among all the cells instead of the empty ones.
add_random_tile_any_cell(b) ==
    {[b EXCEPT ![c[1]][c[2]] = v] : c \in Idx \X Idx, v \in {2, 4}}

\* add_random_tile: every board random.choice / random.random can produce.
add_random_tile(b) ==
    IF EmptyCells(b) # {}
    THEN {[b EXCEPT ![c[1]][c[2]] = v] : c \in EmptyCells(b), v \in {2, 4}}
    ELSE {b}

\* has_valid_moves without the comparison of vertical neighbours.
has_valid_moves_rows_only(b) ==
    \/ \E i \in Idx : \E j \in Idx : b[i][j] = 0
    \/ \E i \in Idx : \E j \in Idx : j < board_size /\ b[i][j] = b[i][j + 1]

has_valid_moves(b) ==
    \/ \E i \in Idx : \E j \in Idx : b[i][j] = 0
    \/ \E i \in Idx : \E j \in Idx :
          \/ j < board_size /\ b[i][j] = b[i][j + 1]
          \/ i < board_size /\ b[i][j] = b[i + 1][j]

\* A Game2048 object as a value, for the copies the solver and trainer make.
Game(b, s, g) == [board |-> b, score |-> s, game_over |-> g]

\* Lines 119-126 without the terminal test of lines 123-124.
AfterMergeNoTerminalTest(g, m) ==
    {[game |-> Game(nb, g.score + m[2], g.game_over),
      ret  |-> g.board # m[1]]
       : nb \in (IF g.board # m[1] THEN add_random_tile(m[1]) ELSE {m[1]})}

\* Lines 119-126 with the spawn made whether or not the board changed.
AfterMergeAlwaysSpawn(g, m) ==
    {[game |-> Game(nb, g.score + m[2],
                    IF ~has_valid_moves(nb) THEN TRUE ELSE g.game_over),
      ret  |-> g.board # m[1]]
       : nb \in add_random_tile(m[1])}

\* Lines 119-126 of make_move, m being the board and gain after the merges:
\* the spawn if the board changed, the terminal test, the value returned.
AfterMerge(g, m) ==
    {[game |-> Game(nb, g.score + m[2],
                    IF ~has_valid_moves(nb) THEN TRUE ELSE g.game_over),
      ret  |-> g.board # m[1]]
       : nb \in (IF g.board # m[1] THEN add_random_tile(m[1]) ELSE {m[1]})}

\* make_move(direction) on game g: the set of outcomes, one per random spawn,
\* each the game after the call together with the value returned.
make_move(g, direction) ==
    IF g.game_over
    THEN {[game |-> g, ret |-> FALSE]}
    ELSE AfterMerge(g, Shift(g.board, direction))

EmptyBoard == [i \in Idx |-> Zeros(board_size)]

\* reset() (and __init__): two random tiles on an empty board.
reset_boards == UNION {add_random_tile(b) : b \in add_random_tile(EmptyBoard)}


\* -------------------------------------------------------- ntuple_network.py

\* NTupleNetwork.__init__: max_tile_power=16
max_power == 16

\* A float is modelled as a fixed-point number: the integer v stands for
\* v / Scale. The learning rate alpha = 0.01 and the discount gamma = 0.95
\* of TDLearner.__init__ are the fractions AlphaNum / AlphaDen and
\* GammaNum / GammaDen; Scale makes one update of an integer value exact.
AlphaNum == 1
AlphaDen == 100
GammaNum == 19
GammaDen == 20
Scale == AlphaDen * GammaDen

\* float('-inf'): below every value evaluate returns.
NegInf == -(2 ^ 30)

\* _create_tuples: the rows, the columns, the 2x2 squares, in that order.
tuples ==
    [i \in Idx |-> [j \in Idx |-> <<i, j>>]]
    \o [j \in Idx |-> [i \in Idx |-> <<i, j>>]]
    \o [k \in 1..((board_size - 1) * (board_size - 1)) |->
          LET i == ((k - 1) \div (board_size - 1)) + 1
              j == ((k - 1) % (board_size - 1)) + 1
          IN  <<<<i, j>>, <<i, j + 1>>, <<i + 1, j>>, <<i + 1, j + 1>>>>]

\* _initialize_weights: an empty table per tuple.
initial_weights == [t \in 1..Len(tuples) |-> <<>>]

\* int(math.log2(tile_value)) of a positive tile value.
RECURSIVE Log2(_)
Log2(v) == IF v <= 1 THEN 0 ELSE 1 + Log2(v \div 2)

\* get_pattern_index with a radix one too small for the exponents.
get_pattern_index_small_radix(b, tuple_coords) ==
    SumSeq([p \in 1..Len(tuple_coords) |->
        LET tile_value == b[tuple_coords[p][1]][tuple_coords[p][2]]
            power == IF tile_value > 0 THEN Log2(tile_value) ELSE 0
        IN  power * ((max_power - 1) ^ (p - 1))])

\* get_pattern_index with the coordinates weighted in the opposite order.
get_pattern_index_reversed(b, tuple_coords) ==
    SumSeq([p \in 1..Len(tuple_coords) |->
        LET tile_value == b[tuple_coords[p][1]][tuple_coords[p][2]]
            power == IF tile_value > 0 THEN Log2(tile_value) ELSE 0
        IN  power * (max_power ^ (Len(tuple_coords) - p))])

\* get_pattern_index: enumerate() numbers the coordinates from 0, so the
\* coordinate at (1-based) position p has weight max_power ^ (p - 1).
get_pattern_index(b, tuple_coords) ==
    SumSeq([p \in 1..Len(tuple_coords) |->
        LET tile_value == b[tuple_coords[p][1]][tuple_coords[p][2]]
            power == IF tile_value > 0 THEN Log2(tile_value) ELSE 0
        IN  power * (max_power ^ (p - 1))])

\* dict.get(pattern, 0.0)
Get(table, pattern) == IF pattern \in DOMAIN table THEN table[pattern] ELSE 0

IsIncreasing(tiles) == \A j \in 1..(Len(tiles) - 1) : tiles[j] <= tiles[j + 1]
IsDecreasing(tiles) == \A j \in 1..(Len(tiles) - 1) : tiles[j] >= tiles[j + 1]

\* 50 for tiles, the nonzero values of a line, if they are more than one and
\* sorted either way.
MonotonicityOf(tiles) ==
    IF Len(tiles) > 1 /\ (IsIncreasing(tiles) \/ IsDecreasing(tiles))
    THEN 50 ELSE 0

Monotonicity(line) == MonotonicityOf(SelectSeq(line, LAMBDA x : x > 0))

Max2(x, y) == IF x > y THEN x ELSE y

RECURSIVE MaxSeq(_)
MaxSeq(s) ==
    IF Len(s) = 1 THEN s[1] ELSE Max2(s[1], MaxSeq(Tail(s)))

\* max(max(row) for row in board)
MaxTile(b) == MaxSeq([i \in Idx |-> MaxSeq(b[i])])

corners ==
    << <<1, 1>>, <<1, board_size>>, <<board_size, 1>>, <<board_size, board_size>> >>

\* Lines 98-104 without the break: every corner holding the highest tile
\* is rewarded.
CornerBonusEveryCorner(b, highest_tile) ==
    IF highest_tile >= 64
    THEN highest_tile
         * Cardinality({c \in 1..4 : b[corners[c][1]][corners[c][2]] = highest_tile})
    ELSE 0

\* Lines 98-104: the bonus for the highest tile in a corner.
CornerBonus(b, highest_tile) ==
    IF /\ highest_tile >= 64
       /\ \E c \in 1..4 : b[corners[c][1]][corners[c][2]] = highest_tile
    THEN highest_tile ELSE 0

\* evaluate(board) with the weight tables w, in units of 1 / Scale.
evaluate(w, b) ==
    LET learned == SumSeq([t \in 1..Len(tuples) |->
                        Get(w[t], get_pattern_index(b, tuples[t]))])
        empty_cells == Cardinality(EmptyCells(b))
        monotonicity_score ==
            SumSeq([i \in Idx |-> Monotonicity(b[i])
                                  + Monotonicity([j \in Idx |-> b[j][i]])])
    IN  learned
        + Scale * (empty_cells * 50 + monotonicity_score + CornerBonus(b, MaxTile(b)))

\* The order in which get_best_move and the trainer try the moves.
MoveOrder == <<"up", "down", "left", "right">>

NoMove == "None"

\* None, where a board is expected.
None == <<>>

NotEvaluated == [direction |-> NoMove, board |-> <<>>]

\* Lines 133-135 with the running maximum replaced on greater or equal.
CompareNotStrict(move, bm, bv, b, value) ==
    [best_move  |-> IF value >= bv THEN move ELSE bm,
     best_value |-> IF value >= bv THEN value ELSE bv,
     evaluated  |-> [direction |-> move, board |-> b],
     value      |-> value]

\* Lines 132-135 of get_best_move: the locals after a move that changed the
\* copy's board b, value being what evaluate returned for b.
Compare(move, bm, bv, b, value) ==
    [best_move  |-> IF value > bv THEN move ELSE bm,
     best_value |-> IF value > bv THEN value ELSE bv,
     evaluated  |-> [direction |-> move, board |-> b],
     value      |-> value]

\* copy.deepcopy(self.game): a game of its own with the same field values.
deepcopy(g) == g

\* One pass of the for loop with the move made on self.game itself instead
\* of a copy of it.
SolverPassOnGame(g, w, move, bm, bv) ==
    {[locals |-> IF r.ret
                 THEN Compare(move, bm, bv, r.game.board, evaluate(w, r.game.board))
                 ELSE [best_move |-> bm, best_value |-> bv,
                       evaluated |-> NotEvaluated, value |-> 0],
      game   |-> r.game]
     : r \in make_move(g, move)}

\* One pass of the for loop that evaluates the copy's board whether or not
\* the move changed it.
SolverPassIgnoringResult(g, w, move, bm, bv) ==
    {[locals |-> Compare(move, bm, bv, r.game.board, evaluate(w, r.game.board)),
      game   |-> g]
     : r \in make_move(deepcopy(g), move)}

\* One pass of the for loop of get_best_move, for one move, on a copy of game
\* g: the set of outcomes, one per random spawn of the copy's make_move. Each
\* outcome gives the locals after the pass, the board handed to evaluate and
\* the value returned, if any, and the game self.game after the pass: the
\* move was made on the copy, so it is g.
SolverPass(g, w, move, bm, bv) ==
    {[locals |-> IF r.ret
                 THEN Compare(move, bm, bv, r.game.board, evaluate(w, r.game.board))
                 ELSE [best_move |-> bm, best_value |-> bv,
                       evaluated |-> NotEvaluated, value |-> 0],
      game   |-> g]
     : r \in make_move(deepcopy(g), move)}

\* ------------------------------------------------------------------ train.py

\* A file name is what split('_') and split('.') make of it: the sequence of
\* its '_'-separated fields, each the sequence of its '.'-separated pieces.
\* A piece is a numeral (int() gives n) or a word (int() raises ValueError).
Num(n) == [digits |-> TRUE, n |-> n, w |-> ""]
Word(w) == [digits |-> FALSE, n |-> 0, w |-> w]

\* f"{weights_dir}/ntuple_weights_{episode}.pkl", without the directory
PeriodicName(k) == << <<Word("ntuple")>>, <<Word("weights")>>, <<Num(k), Word("pkl")>> >>

\* f"{weights_dir}/ntuple_weights_final.pkl"
FinalName == << <<Word("ntuple")>>, <<Word("weights")>>, <<Word("final"), Word("pkl")>> >>

\* The empty weights directory.
NoFiles == <<>>

\* _save_weights: pickle.dump(self.network.weights) to the file of that name,
\* replacing what it held. The content carries the number of episodes the
\* weights were trained for.
save_weights(dir, name, w, n) ==
    [f \in DOMAIN dir \cup {name} |->
        IF f = name THEN [weights |-> w, trained |-> n, pickled |-> TRUE] ELSE dir[f]]

\* A file that was not written by pickle.dump, or that cannot be opened for
\* reading: open or pickle.load raises on it.
Garbage == [weights |-> initial_weights, trained |-> 0, pickled |-> FALSE]

\* with open(path, 'rb') as f: pickle.load(f), for a file that exists: it
\* raises or gives the pickled weights.
pickle_load(content) == [raises |-> ~content.pickled, value |-> content.weights]

\* glob.glob(f"{weights_dir}/ntuple_weights_*.pkl")
Glob(dir) ==
    {f \in DOMAIN dir :
        /\ Len(f) >= 3
        /\ f[1] = <<Word("ntuple")>>
        /\ f[2] = <<Word("weights")>>
        /\ Len(f[Len(f)]) >= 2
        /\ f[Len(f)][Len(f[Len(f)])] = Word("pkl")}

\* 'final' in os.path.basename(cp)
HasFinal(f) == \E i \in 1..Len(f) : \E j \in 1..Len(f[i]) : f[i][j] = Word("final")

\* The files of find_latest_checkpoint's loop that reach the comparison, each
\* with int(os.path.basename(cp).split('_')[2].split('.')[0]); the others are
\* skipped by continue or by the except clause.
Parsed(dir) ==
    {f \in Glob(dir) : ~HasFinal(f) /\ f[3][1].digits}

\* find_latest_checkpoint keeping the smallest episode number.
find_earliest_checkpoint(dir) ==
    IF Glob(dir) = {} THEN {<<None, 0>>}
    ELSE IF \E f \in Parsed(dir) : f[3][1].n > -1
    THEN {<<f, f[3][1].n>> :
            f \in {g \in Parsed(dir) : \A h \in Parsed(dir) : h[3][1].n >= g[3][1].n}}
    ELSE {<<None, -1>>}

\* find_latest_checkpoint(weights_dir): the possible results
\* <<latest_checkpoint, latest_episode>>. glob lists the files in no
\* particular order, and of several files with the largest number the one
\* listed first is kept.
find_latest_checkpoint(dir) ==
    IF Glob(dir) = {} THEN {<<None, 0>>}
    ELSE IF \E f \in Parsed(dir) : f[3][1].n > -1
    THEN {<<f, f[3][1].n>> :
            f \in {g \in Parsed(dir) : \A h \in Parsed(dir) : h[3][1].n <= g[3][1].n}}
    ELSE {<<None, -1>>}

\* get_reward(prev_score, current_score, prev_board, current_board)
get_reward(prev_score, current_score, prev_board, current_board) ==
    LET score_reward == current_score - prev_score
        prev_max_tile == MaxTile(prev_board)
        current_max_tile == MaxTile(current_board)
        tile_reward == IF current_max_tile > prev_max_tile THEN current_max_tile ELSE 0
        empty_reward == Cardinality(EmptyCells(current_board)) * 10
    IN  score_reward + tile_reward + empty_reward

\* Line 87 without the discount of best_value.
td_error_undiscounted(reward, bv, pv) == Scale * reward + bv - pv

\* td_error = reward + (self.gamma * best_value) - prev_value, in units of
\* 1 / Scale; a product that is no multiple of the unit is rounded down.
td_error(reward, bv, pv) == Scale * reward + ((GammaNum * bv) \div GammaDen) - pv

\* Lines 90-93 with the pattern index of the first tuple used for every table.
updated_weights_first_tuple(w, prev, err) ==
    [t \in 1..Len(tuples) |->
        LET pattern == get_pattern_index(prev, tuples[1])
            current_weight == Get(w[t], pattern)
        IN  [k \in DOMAIN w[t] \cup {pattern} |->
                IF k = pattern
                THEN current_weight + ((AlphaNum * err) \div AlphaDen)
                ELSE w[t][k]]]

\* Lines 90-93: every tuple's table gets alpha * td_error added at the
\* tuple's pattern index on prev_afterstate.
updated_weights(w, prev, err) ==
    [t \in 1..Len(tuples) |->
        LET pattern == get_pattern_index(prev, tuples[t])
            current_weight == Get(w[t], pattern)
        IN  [k \in DOMAIN w[t] \cup {pattern} |->
                IF k = pattern
                THEN current_weight + ((AlphaNum * err) \div AlphaDen)
                ELSE w[t][k]]]

\* Lines 67-73 of train: the locals after a move that changed the copy's
\* board, afterstate, value being what evaluate returned for it.
TrainCompare(move, bm, bv, ba, afterstate, value) ==
    [best_move       |-> IF value > bv THEN move ELSE bm,
     best_value      |-> IF value > bv THEN value ELSE bv,
     best_afterstate |-> IF value > bv THEN afterstate ELSE ba]

\* One pass of the for loop of lines 63-73 on a copy of game g: the set of
\* outcomes, one per random spawn of the copy's make_move.
TrainPass(g, w, move, bm, bv, ba) ==
    {[locals |-> IF r.ret
                 THEN TrainCompare(move, bm, bv, ba, r.game.board,
                                   evaluate(w, r.game.board))
                 ELSE [best_move |-> bm, best_value |-> bv, best_afterstate |-> ba],
      game   |-> g]
     : r \in make_move(deepcopy(g), move)}

\* ------------------------------------------------------ the game under play

Directions == {"up", "down", "left", "right"}

\* What a caller may pass as a direction: the four directions and one string
\* that is none of them.
DirectionInputs == Directions \cup {"diagonal"}

Called(op, arg, before, ret) ==
    [op |-> op, arg |-> <<arg>>, before |-> before, ret |-> <<ret>>]

\* The same call before it has returned.
Calling(op, arg, before) ==
    [op |-> op, arg |-> <<arg>>, before |-> before, ret |-> <<>>]

\* The argument and the returned value of a recorded call.
Arg(c) == c.arg[1]

Ret(c) == c.ret[1]

NoCall == [op |-> "none", arg |-> <<>>, before |-> <<>>, ret |-> <<>>]

\* No loop over the moves is running.
NoLocals ==
    /\ move_i = 0
    /\ best_move = NoMove
    /\ best_value = NegInf
    /\ best_afterstate = None
    /\ evaluated = NotEvaluated
    /\ values = <<>>

\* No training run was started and the weights directory is empty.
NotTraining ==
    /\ prev_afterstate = None
    /\ prev_value = 0
    /\ episode = 0
    /\ num_episodes = 0
    /\ save_interval = 1
    /\ files = NoFiles
    /\ trained = 0
    /\ played = 0
    /\ moves = 0
    /\ updates = 0

\* Rows the sample boards are built from: two alternating full rows (stacked
\* they give the boards with no move left), a full row with a single pair, a
\* row with a gap and three equal tiles, and the empty row.
SampleRows ==
    { <<2, 4, 2, 4>>, <<4, 2, 4, 2>>, <<4, 2, 8, 8>>, <<2, 0, 2, 2>>, <<0, 0, 0, 0>> }

TileCount(b) == board_size * board_size - Cardinality(EmptyCells(b))

\* Boards of a game in progress. A game always holds at least two tiles: it
\* starts with two and a merge is followed by a spawn.
SampleBoards ==
    {b \in [Idx -> SampleRows] : TileCount(b) >= 2}

\* The score of a game that built the tiles of board b from spawned 2s: a
\* tile 2^k took 2^(k-1) - 1 merges worth (k - 1) * 2^k together.
ScoreOf(b) ==
    SumSeq([c \in 1..(board_size * board_size) |->
        LET v == b[((c - 1) \div board_size) + 1][((c - 1) % board_size) + 1]
        IN  IF v = 0 THEN 0 ELSE (Log2(v) - 1) * v])

\* A game in progress. make_move keeps game_over equal to the negation of
\* has_valid_moves(), so a game in progress starts that way.
Init ==
    /\ board \in SampleBoards
    /\ score = ScoreOf(board)
    /\ game_over = ~has_valid_moves(board)
    /\ weights = initial_weights
    /\ pc = "idle"
    /\ NoLocals
    /\ NotTraining
    /\ call = NoCall
    /\ calls = 0

MakeMoveCall ==
    /\ calls < MaxCalls
    /\ \E direction \in DirectionInputs :
         \E r \in make_move(Game(board, score, game_over), direction) :
            /\ board' = r.game.board
            /\ score' = r.game.score
            /\ game_over' = r.game.game_over
            /\ call' = Called("make_move", direction, board, r.ret)
    /\ calls' = calls + 1
    /\ UNCHANGED <<weights, loop_vars, train_vars, store_vars>>

HasValidMovesCall ==
    /\ calls < MaxCalls
    /\ call' = Called("has_valid_moves", <<>>, board, has_valid_moves(board))
    /\ calls' = calls + 1
    /\ UNCHANGED <<game_vars, weights, loop_vars, train_vars, store_vars>>

Next == MakeMoveCall \/ HasValidMovesCall

Spec == Init /\ [][Next]_vars

\* ---------------------------------------------- a game from start to its end

\* New games with their two tiles in the top left quarter of the board.
NewGames ==
    {b \in reset_boards : \A c \in EmptyCells(EmptyBoard) :
        b[c[1]][c[2]] # 0 => (c[1] <= 2 /\ c[2] <= 2)}

\* Games near their end: the full sample boards, those with no move left
\* among them.
FullBoards == {b \in SampleBoards : EmptyCells(b) = {}}

\* A call of reset().
ResetCall ==
    /\ calls < MaxCalls
    /\ board' \in reset_boards
    /\ score' = 0
    /\ game_over' = FALSE
    /\ call' = Called("reset", <<>>, <<>>, <<>>)
    /\ calls' = calls + 1
    /\ UNCHANGED <<weights, loop_vars, train_vars, store_vars>>

\* A new game, or a game that make_move brought close to its end or to it.
InitGame ==
    /\ board \in NewGames \cup FullBoards
    /\ score = ScoreOf(board)
    /\ game_over = ~has_valid_moves(board)
    /\ weights = initial_weights
    /\ pc = "idle"
    /\ NoLocals
    /\ NotTraining
    /\ call = NoCall
    /\ calls = 0

NextGame == MakeMoveCall \/ ResetCall

SpecGame == InitGame /\ [][NextGame]_vars

\* ------------------------------------------------- merge_row_left on any row

TileValues == {0} \cup {2 ^ k : k \in 1..MaxExp}

Rows == [Idx -> TileValues]

InitRow ==
    /\ board \in {CHOOSE b \in reset_boards : TRUE}
    /\ score = 0
    /\ game_over = FALSE
    /\ weights = initial_weights
    /\ pc = "idle"
    /\ NoLocals
    /\ NotTraining
    /\ call = NoCall
    /\ calls = 0

MergeRowLeftCall ==
    /\ calls < MaxCalls
    /\ \E row \in Rows :
         call' = Called("merge_row_left", row, <<>>, merge_row_left(row))
    /\ calls' = calls + 1
    /\ UNCHANGED <<game_vars, weights, loop_vars, train_vars, store_vars>>

NextRow == MergeRowLeftCall

SpecRow == InitRow /\ [][NextRow]_vars


\* ------------------------------------------------ NTupleSolver.get_best_move

\* get_best_move is entered: a finished game returns None at once, otherwise
\* the locals are initialised and the for loop starts.
GetBestMoveCall ==
    /\ pc = "idle"
    /\ calls < MaxCalls
    /\ calls' = calls + 1
    /\ evaluated' = NotEvaluated
    /\ values' = <<>>
    /\ best_move' = NoMove
    /\ best_value' = NegInf
    /\ IF game_over
       THEN /\ call' = Called("get_best_move", <<>>, board, NoMove)
            /\ UNCHANGED <<pc, move_i>>
       ELSE /\ pc' = "solver_loop"
            /\ move_i' = 1
            /\ call' = NoCall
    /\ UNCHANGED <<game_vars, weights, best_afterstate, train_vars, store_vars>>

\* One pass of the for loop; the pass for the last move returns best_move.
SolverLoopStep ==
    /\ pc = "solver_loop"
    /\ \E o \in SolverPass(Game(board, score, game_over), weights,
                           MoveOrder[move_i], best_move, best_value) :
         /\ best_move' = o.locals.best_move
         /\ best_value' = o.locals.best_value
         /\ evaluated' = o.locals.evaluated
         /\ values' = IF o.locals.evaluated # NotEvaluated
                      THEN Append(values, [direction |-> MoveOrder[move_i],
                                           value |-> o.locals.value])
                      ELSE values
         /\ board' = o.game.board
         /\ score' = o.game.score
         /\ game_over' = o.game.game_over
         /\ IF move_i < Len(MoveOrder)
            THEN /\ move_i' = move_i + 1
                 /\ UNCHANGED <<pc, call>>
            ELSE /\ move_i' = 0
                 /\ pc' = "idle"
                 /\ call' = Called("get_best_move", <<>>, board, o.locals.best_move)
    /\ UNCHANGED <<weights, calls, best_afterstate, train_vars, store_vars>>

\* Largest number of empty cells of the boards the solver is asked about.
MaxEmpty == 1

InitSolver ==
    /\ Init
    /\ Cardinality(EmptyCells(board)) <= MaxEmpty

NextSolver == GetBestMoveCall \/ SolverLoopStep

SpecSolver == InitSolver /\ [][NextSolver]_vars

\* ------------------------------------------------------- TDLearner.train

\* Number of moves the trainer commits in one behaviour.
MaxMoves == 1

\* The locals of the while loop body before the for loop over the moves.
StartSelect ==
    /\ move_i' = 1
    /\ best_move' = NoMove
    /\ best_afterstate' = None
    /\ best_value' = NegInf

\* One pass of the for loop of lines 63-73. After the last pass: break if no
\* move was found, the TD update if there is a previous afterstate, the move
\* otherwise. Boards with more than MaxEmpty empty cells are followed for the
\* first MaxMoves moves of an episode, or of those the model makes, only.
TrainSelectStep ==
    /\ pc = "select"
    /\ \/ moves < MaxMoves
       \/ calls < MaxMoves
       \/ Cardinality(EmptyCells(board)) <= MaxEmpty
    /\ \E o \in TrainPass(Game(board, score, game_over), weights,
                          MoveOrder[move_i], best_move, best_value, best_afterstate) :
         /\ best_move' = o.locals.best_move
         /\ best_value' = o.locals.best_value
         /\ best_afterstate' = o.locals.best_afterstate
         /\ board' = o.game.board
         /\ score' = o.game.score
         /\ game_over' = o.game.game_over
         /\ IF move_i < Len(MoveOrder)
            THEN /\ move_i' = move_i + 1
                 /\ pc' = pc
            ELSE /\ move_i' = 0
                 /\ pc' = IF o.locals.best_move = NoMove THEN "episode_end"
                          ELSE IF prev_afterstate # None THEN "update"
                          ELSE "commit"
    /\ UNCHANGED <<weights, evaluated, values, train_vars, store_vars, call, calls>>

\* Lines 79-93: the reward and the TD update.
TDUpdate ==
    /\ pc = "update"
    /\ LET reward == get_reward(score, score, prev_afterstate, best_afterstate)
       IN  weights' = updated_weights(weights, prev_afterstate,
                                      td_error(reward, best_value, prev_value))
    /\ pc' = "commit"
    /\ updates' = updates + 1
    /\ UNCHANGED <<game_vars, move_i, best_move, best_value, best_afterstate,
                   evaluated, values, train_vars, files, trained, played, moves,
                   call, calls>>

\* Lines 96-98 and the test of the while loop: the move is made on the real
\* game and the afterstate and its value become the previous ones.
Commit ==
    /\ pc = "commit"
    /\ calls < MaxMoves
    /\ calls' = calls + 1
    /\ \E r \in make_move(Game(board, score, game_over), best_move) :
         /\ board' = r.game.board
         /\ score' = r.game.score
         /\ game_over' = r.game.game_over
         /\ pc' = IF r.game.game_over THEN "episode_end" ELSE "select"
    /\ prev_afterstate' = best_afterstate
    /\ prev_value' = best_value
    /\ StartSelect
    /\ moves' = moves + 1
    /\ UNCHANGED <<weights, evaluated, values, episode, num_episodes, save_interval,
                   files, trained, played, updates, call>>

\* Lines 100-110: the episode is over; every save_interval-th episode the
\* weights are saved under the episode's number.
EpisodeEnd ==
    /\ pc = "episode_end"
    /\ trained' = trained + 1
    /\ played' = played + 1
    /\ files' = IF episode % save_interval = 0
                THEN save_weights(files, PeriodicName(episode), weights, trained + 1)
                ELSE files
    /\ episode' = episode + 1
    /\ pc' = "for_episode"
    /\ UNCHANGED <<game_vars, weights, move_i, best_move, best_value, best_afterstate,
                   evaluated, values, prev_afterstate, prev_value, num_episodes,
                   save_interval, moves, updates, call, calls>>

\* Lines 112-115: the for loop is over, the final weights are saved and
\* train returns.
TrainFinish ==
    /\ pc = "for_episode"
    /\ episode > num_episodes
    /\ files' = save_weights(files, FinalName, weights, trained)
    /\ pc' = "idle"
    /\ call' = [call EXCEPT !.ret = <<"trained">>]
    /\ UNCHANGED <<game_vars, weights, move_i, best_move, best_value, best_afterstate,
                   evaluated, values, train_vars, trained, played, moves, updates, calls>>

\* Number of pairs of equal neighbours of board b.
PairCount(b) ==
    Cardinality({c \in Idx \X Idx : c[2] < board_size /\ b[c[1]][c[2]] = b[c[1]][c[2] + 1]})
    + Cardinality({c \in Idx \X Idx : c[1] < board_size /\ b[c[1]][c[2]] = b[c[1] + 1][c[2]]})

\* The boards an episode is picked up on: full, with a single pair of
\* equal neighbours, so that the one move that merges it frees one cell.
TrainBoards ==
    {b \in SampleBoards : EmptyCells(b) = {} /\ PairCount(b) = 1}

\* Weights that earlier updates left: every table holds an entry once the
\* first update of a training was made. These are the tables after one
\* update for a full afterstate.
SampleWeights ==
    updated_weights(initial_weights,
                    <<<<2, 4, 2, 4>>, <<4, 2, 4, 2>>, <<2, 4, 2, 4>>, <<4, 2, 4, 2>>>>,
                    td_error(8, 0, 0))

\* The last row of board b that ends with a 2 or a 4.
SpawnRow(b) ==
    CHOOSE i \in Idx :
        /\ b[i][board_size] \in {2, 4}
        /\ \A k \in Idx : k > i => b[k][board_size] \notin {2, 4}

\* The afterstates train may hold for the move that led to board b: the
\* move was "left" and the tile that followed it is the one at the end of
\* row SpawnRow(b). The afterstate is the board of the copy the move was
\* tried on (lines 64-67), which holds the copy's own random tile on that
\* cell.
Afterstates(b) ==
    {[b EXCEPT ![SpawnRow(b)][board_size] = v] : v \in {2, 4}}

\* The number of moves of a game that built the tiles of board b from
\* spawned 2s: a tile v is v / 2 spawns, two of them made by reset.
MovesOf(b) ==
    SumSeq([c \in 1..(board_size * board_size) |->
        b[((c - 1) \div board_size) + 1][((c - 1) % board_size) + 1] \div 2]) - 2

\* train(n, 1, weights_dir) at the top of the while loop of line 57, in the
\* course of its first episode: prev_afterstate and prev_value are the
\* afterstate of the move just made and the value evaluate gave it, and an
\* update was made before every move but the first.
MidEpisode(n) ==
    /\ board \in TrainBoards
    /\ score = ScoreOf(board)
    /\ game_over = FALSE
    /\ weights = SampleWeights
    /\ pc = "select"
    /\ move_i = 1
    /\ best_move = NoMove
    /\ best_value = NegInf
    /\ best_afterstate = None
    /\ evaluated = NotEvaluated
    /\ values = <<>>
    /\ prev_afterstate \in Afterstates(board)
    /\ prev_value = evaluate(weights, prev_afterstate)
    /\ episode = 1
    /\ num_episodes = n
    /\ save_interval = 1
    /\ files = NoFiles
    /\ trained = 0
    /\ played = 0
    /\ moves = MovesOf(board)
    /\ updates = moves - 1
    /\ call = Calling("train", <<n, 1>>, NoFiles)
    /\ calls = 0

InitTrain == MidEpisode(1)

NextTrain == TrainSelectStep \/ TDUpdate \/ Commit \/ EpisodeEnd \/ TrainFinish

SpecTrain == InitTrain /\ [][NextTrain]_vars

\* ------------------------------------------------ train from episode to episode

EpisodesToTrain == 2

\* The boards reset() is followed on: a 2 and a 4 in the first column, and
\* two 2s on the diagonal, in the top left quarter.
StartBoards ==
    {b \in NewGames : \/ b[1][1] = 2 /\ b[2][1] = 4
                      \/ b[1][1] = 2 /\ b[2][2] = 2}

\* Lines 53-55 with prev_afterstate and prev_value kept from the episode
\* before.
EpisodeStartKeepingPrev ==
    /\ pc = "for_episode"
    /\ episode <= num_episodes
    /\ board' \in StartBoards
    /\ score' = 0
    /\ game_over' = FALSE
    /\ StartSelect
    /\ pc' = "select"
    /\ moves' = 0
    /\ updates' = 0
    /\ UNCHANGED <<weights, evaluated, values, train_vars, files, trained, played,
                   call, calls>>

\* Lines 52-57: the next episode starts; the game is reset and there is no
\* previous afterstate.
EpisodeStart ==
    /\ pc = "for_episode"
    /\ episode <= num_episodes
    /\ board' \in StartBoards
    /\ score' = 0
    /\ game_over' = FALSE
    /\ prev_afterstate' = None
    /\ prev_value' = 0
    /\ StartSelect
    /\ pc' = "select"
    /\ moves' = 0
    /\ updates' = 0
    /\ UNCHANGED <<weights, evaluated, values, episode, num_episodes, save_interval,
                   files, trained, played, call, calls>>

\* train(EpisodesToTrain, 1, weights_dir) just entered, at the top of its
\* for loop with the game as constructed.
TrainEntered ==
    /\ board \in StartBoards
    /\ score = 0
    /\ game_over = FALSE
    /\ weights = initial_weights
    /\ pc = "for_episode"
    /\ NoLocals
    /\ prev_afterstate = None
    /\ prev_value = 0
    /\ episode = 1
    /\ num_episodes = EpisodesToTrain
    /\ save_interval = 1
    /\ files = NoFiles
    /\ trained = 0
    /\ played = 0
    /\ moves = 0
    /\ updates = 0
    /\ call = Calling("train", <<EpisodesToTrain, 1>>, NoFiles)
    /\ calls = 0

InitEpisode == TrainEntered \/ MidEpisode(EpisodesToTrain)

NextEpisode == EpisodeStart \/ TrainSelectStep \/ TDUpdate \/ Commit \/ EpisodeEnd

SpecEpisode == InitEpisode /\ [][NextEpisode]_vars

\* -------------------------------------------- the second move of an episode

\* The real board after the first move of an episode: from the 2s on the
\* diagonal, "left" and a 2 spawned in the first row.
EarlyBoard ==
    <<<<2, 2, 0, 0>>, <<2, 0, 0, 0>>, <<0, 0, 0, 0>>, <<0, 0, 0, 0>>>>

\* The afterstate train holds for that move: the board of the copy the move
\* was tried on, where a 4 was spawned at the end of the second row.
EarlyAfterstate ==
    <<<<2, 0, 0, 0>>, <<2, 0, 0, 4>>, <<0, 0, 0, 0>>, <<0, 0, 0, 0>>>>

\* train(1, 1, weights_dir) at the top of the while loop after the first
\* move of its first episode.
InitEarly ==
    /\ board = EarlyBoard
    /\ score = 0
    /\ game_over = FALSE
    /\ weights = initial_weights
    /\ pc = "select"
    /\ move_i = 1
    /\ best_move = NoMove
    /\ best_value = NegInf
    /\ best_afterstate = None
    /\ evaluated = NotEvaluated
    /\ values = <<>>
    /\ prev_afterstate = EarlyAfterstate
    /\ prev_value = evaluate(weights, prev_afterstate)
    /\ episode = 1
    /\ num_episodes = 1
    /\ save_interval = 1
    /\ files = NoFiles
    /\ trained = 0
    /\ played = 0
    /\ moves = 1
    /\ updates = 0
    /\ call = Calling("train", <<1, 1>>, NoFiles)
    /\ calls = 0

NextEarly == TrainSelectStep \/ TDUpdate \/ Commit

SpecEarly == InitEarly /\ [][NextEarly]_vars

\* The selection of a move by the solver and by the trainer, side by side.
InitSelect == InitSolver \/ InitTrain

NextSelect == NextSolver \/ NextTrain

SpecSelect == InitSelect /\ [][NextSelect]_vars

\* ------------------------------------------------------------ run_training

\* Number of run_training calls in one behaviour.
MaxRuns == 2
\* Largest --episodes and --save-interval of a run.
MaxEpisodes == 4
MaxInterval == 2

RunArgs ==
    [episodes : 0..MaxEpisodes, save_interval : 1..MaxInterval, resume : BOOLEAN]

\* run_training(args) up to the call of trainer.train: the checkpoint is
\* looked up and loaded, the remaining episodes are computed, and either
\* nothing is trained or train is entered with remaining_episodes.
RunTrainingCall ==
    /\ pc = "idle"
    /\ calls < MaxRuns
    /\ calls' = calls + 1
    /\ \E args \in RunArgs :
       \E found \in (IF args.resume THEN find_latest_checkpoint(files)
                     ELSE {<<None, 0>>}) :
         LET loaded == args.resume /\ found[1] # None
             start_episode == IF loaded THEN found[2] ELSE 0
             remaining_episodes == args.episodes - start_episode
         IN  IF loaded /\ pickle_load(files[found[1]]).raises
             THEN \* the exception of line 156 leaves run_training
                  /\ call' = Called("run_training", args, files, "raised")
                  /\ pc' = "aborted"
                  /\ weights' = initial_weights
                  /\ UNCHANGED <<trained, played, episode, num_episodes, save_interval>>
             ELSE /\ weights' = IF loaded THEN pickle_load(files[found[1]]).value
                                ELSE initial_weights
                  /\ trained' = IF loaded THEN files[found[1]].trained ELSE 0
                  /\ played' = 0
                  /\ IF remaining_episodes <= 0
                     THEN /\ call' = Called("run_training", args, files, "completed")
                          /\ UNCHANGED <<pc, episode, num_episodes, save_interval>>
                     ELSE /\ call' = Calling("run_training", args, files)
                          /\ pc' = "for_episode"
                          /\ episode' = 1
                          /\ num_episodes' = remaining_episodes
                          /\ save_interval' = args.save_interval
    /\ UNCHANGED <<game_vars, move_i, best_move, best_value, best_afterstate,
                   evaluated, values, prev_afterstate, prev_value, files, moves, updates>>

\* Lines 53-98 for one episode of the for loop, as seen from the run: the
\* game is reset and played to its end. The moves of an episode and their
\* updates are the steps TrainSelectStep, TDUpdate and Commit; a run follows
\* only how many episodes the weights went through, not the game.
PlayEpisode ==
    /\ pc = "for_episode"
    /\ episode <= num_episodes
    /\ pc' = "episode_end"
    /\ UNCHANGED <<game_vars, weights, move_i, best_move, best_value, best_afterstate,
                   evaluated, values, train_vars, store_vars, call, calls>>

\* No run was started yet and the weights directory is empty.
InitRun ==
    /\ board \in {CHOOSE b \in reset_boards : TRUE}
    /\ score = 0
    /\ game_over = FALSE
    /\ weights = initial_weights
    /\ pc = "idle"
    /\ NoLocals
    /\ NotTraining
    /\ call = NoCall
    /\ calls = 0

NextRun == RunTrainingCall \/ PlayEpisode \/ EpisodeEnd \/ TrainFinish

SpecRun == InitRun /\ [][NextRun]_vars

\* ---------------------------------------- a run killed while it saves weights

\* The process is killed inside _save_weights, after open(filename, 'wb')
\* truncated the file and before pickle.dump wrote all of it: the file of
\* that name is left with part of a pickle, and the run is over.
CrashInSave ==
    /\ \/ pc = "episode_end" /\ episode % save_interval = 0
       \/ pc = "for_episode" /\ episode > num_episodes
    /\ files' = [f \in DOMAIN files
                      \cup {IF pc = "episode_end" THEN PeriodicName(episode) ELSE FinalName}
                  |-> IF f = (IF pc = "episode_end" THEN PeriodicName(episode) ELSE FinalName)
                      THEN Garbage ELSE files[f]]
    /\ pc' = "idle"
    /\ call' = [call EXCEPT !.ret = <<"killed">>]
    /\ UNCHANGED <<game_vars, weights, move_i, best_move, best_value, best_afterstate,
                   evaluated, values, train_vars, trained, played, moves, updates, calls>>

NextCrash == RunTrainingCall \/ PlayEpisode \/ EpisodeEnd \/ TrainFinish \/ CrashInSave

SpecCrash == InitRun /\ [][NextCrash]_vars

\* ------------------------------------------------------------------
\* Loading a checkpoint: the front end (play.py) and a resumed run
\* ------------------------------------------------------------------

\* The file names a weights directory is drawn from.
LoadNames == {PeriodicName(1), PeriodicName(2), FinalName}

\* A checkpoint written by the trainer, and a file pickle.load raises on.
LoadContents ==
    {[weights |-> SampleWeights, trained |-> 1, pickled |-> TRUE], Garbage}

\* The weights directories found on disk when the program starts.
LoadDirs ==
    UNION {[names -> LoadContents] : names \in SUBSET LoadNames}

\* GameGUI.__init__ lines 52-54 and load_weights(path): a new network gets
\* the weights of the file; FileNotFoundError and any other exception are
\* caught, a warning is printed and the network keeps its initial weights.
LoadWeightsCall ==
    /\ pc = "idle"
    /\ calls < MaxCalls
    /\ calls' = calls + 1
    /\ \E path \in LoadNames :
         IF path \notin DOMAIN files
         THEN /\ weights' = initial_weights
              /\ call' = Called("load_weights", path, files, "not found")
         ELSE IF pickle_load(files[path]).raises
         THEN /\ weights' = initial_weights
              /\ call' = Called("load_weights", path, files, "error")
         ELSE /\ weights' = pickle_load(files[path]).value
              /\ call' = Called("load_weights", path, files, "loaded")
    /\ UNCHANGED <<game_vars, loop_vars, train_vars, store_vars>>

\* No call was made yet; the weights directory is as found on disk.
InitLoad ==
    /\ board \in {CHOOSE b \in reset_boards : TRUE}
    /\ score = 0
    /\ game_over = FALSE
    /\ weights = initial_weights
    /\ pc = "idle"
    /\ NoLocals
    /\ prev_afterstate = None
    /\ prev_value = 0
    /\ episode = 0
    /\ num_episodes = 0
    /\ save_interval = 1
    /\ files \in LoadDirs
    /\ trained = 0
    /\ played = 0
    /\ moves = 0
    /\ updates = 0
    /\ call = NoCall
    /\ calls = 0

NextLoad == LoadWeightsCall \/ RunTrainingCall \/ PlayEpisode \/ EpisodeEnd \/ TrainFinish

SpecLoad == InitLoad /\ [][NextLoad]_vars

\* ------------------------------------------------------------------
\* find_latest_checkpoint over the names a weights directory can hold
\* ------------------------------------------------------------------

\* ntuple_weights_3_old.pkl, ntuple_weights_old_3.pkl and ntuple_weights_abc.pkl
OldAfterName == << <<Word("ntuple")>>, <<Word("weights")>>, <<Num(3)>>, <<Word("old"), Word("pkl")>> >>
OldBeforeName == << <<Word("ntuple")>>, <<Word("weights")>>, <<Word("old")>>, <<Num(3), Word("pkl")>> >>
WordName == << <<Word("ntuple")>>, <<Word("weights")>>, <<Word("abc"), Word("pkl")>> >>

\* The file names a scanned directory is drawn from.
ScanNames ==
    {PeriodicName(1), PeriodicName(2), FinalName, OldAfterName, OldBeforeName, WordName}

\* The weights directories a scan can find.
ScanDirs ==
    {[f \in names |-> [weights |-> initial_weights, trained |-> 0, pickled |-> TRUE]]
        : names \in SUBSET ScanNames}

\* A call of find_latest_checkpoint(weights_dir).
FindLatestCheckpointCall ==
    /\ pc = "idle"
    /\ calls < MaxCalls
    /\ calls' = calls + 1
    /\ \E found \in find_latest_checkpoint(files) :
         call' = Called("find_latest_checkpoint", "weights_dir", files, found)
    /\ UNCHANGED <<game_vars, weights, loop_vars, train_vars, store_vars>>

InitScan ==
    /\ board \in {CHOOSE b \in reset_boards : TRUE}
    /\ score = 0
    /\ game_over = FALSE
    /\ weights = initial_weights
    /\ pc = "idle"
    /\ NoLocals
    /\ prev_afterstate = None
    /\ prev_value = 0
    /\ episode = 0
    /\ num_episodes = 0
    /\ save_interval = 1
    /\ files \in ScanDirs
    /\ trained = 0
    /\ played = 0
    /\ moves = 0
    /\ updates = 0
    /\ call = NoCall
    /\ calls = 0

NextScan == FindLatestCheckpointCall

SpecScan == InitScan /\ [][NextScan]_vars

\* --------------------------------------------------------- get_pattern_index

\* Largest tile exponent, besides max_power - 1, of the boards indexed.
MaxIndexExp == 1

IndexValues == {0, 2 ^ (max_power - 1)} \cup {2 ^ k : k \in 1..MaxIndexExp}

\* Board b with the cells of the tuple coords set to the values vals.
WithTuple(b, coords, vals) ==
    [i \in Idx |-> [j \in Idx |->
        IF \E p \in 1..Len(coords) : coords[p] = <<i, j>>
        THEN vals[CHOOSE p \in 1..Len(coords) : coords[p] = <<i, j>>]
        ELSE b[i][j]]]

\* The boards indexed for the tuple coords: a board of SampleRows with every
\* choice of values on the cells of the tuple.
IndexBoards(coords) ==
    {WithTuple(<<<<2, 4, 2, 4>>, <<4, 2, 8, 8>>, <<2, 0, 2, 2>>, <<0, 0, 0, 0>>>>, coords, vals) :
        vals \in [1..Len(coords) -> IndexValues]}

GetPatternIndexCall ==
    /\ calls = 0
    /\ calls' = calls + 1
    /\ \E t \in 1..Len(tuples) : \E b \in IndexBoards(tuples[t]) :
         call' = Called("get_pattern_index", t, b, get_pattern_index(b, tuples[t]))
    /\ UNCHANGED <<game_vars, weights, loop_vars, train_vars, store_vars>>

NextIndex == GetPatternIndexCall

SpecIndex == InitRow /\ [][NextIndex]_vars

\* ------------------------------------------------------------------
\* evaluate on boards with and without a high tile in the corners
\* ------------------------------------------------------------------

\* Rows the evaluated boards are built from: rows with a 64 in both corners,
\* in one corner and next to the corner, rows below 64 sorted and unsorted,
\* a row with gaps and the empty row.
EvalRows ==
    { <<64, 2, 4, 64>>, <<64, 0, 0, 2>>, <<2, 64, 0, 0>>, <<32, 8, 8, 2>>,
      <<2, 4, 2, 4>>, <<4, 0, 2, 0>>, <<0, 0, 0, 0>> }

EvalBoards == {b \in [Idx -> EvalRows] : TileCount(b) >= 2}

\* A call of network.evaluate(board).
EvaluateCall ==
    /\ calls = 0
    /\ calls' = calls + 1
    /\ \E b \in EvalBoards :
         call' = Called("evaluate", b, weights, evaluate(weights, b))
    /\ UNCHANGED <<game_vars, weights, loop_vars, train_vars, store_vars>>

\* A network as constructed, or after an update of its tables.
InitEval ==
    /\ board \in {CHOOSE b \in reset_boards : TRUE}
    /\ score = 0
    /\ game_over = FALSE
    /\ weights \in {initial_weights, SampleWeights}
    /\ pc = "idle"
    /\ NoLocals
    /\ NotTraining
    /\ call = NoCall
    /\ calls = 0

NextEval == EvaluateCall

SpecEval == InitEval /\ [][NextEval]_vars

\* ------------------------------------------------------------------ claims

IsMakeMove(c) == c.op = "make_move" /\ Arg(c) \in Directions

RECURSIVE Reduced(_)
Reduced(c) ==
    IF Len(c) < 2 THEN c
    ELSE IF c[1] = c[2] THEN <<2 * c[1]>> \o Reduced(SubSeq(c, 3, Len(c)))
    ELSE <<c[1]>> \o Reduced(Tail(c))

\* The sum of the new values of the tiles those merges create.
RECURSIVE ReducedGain(_)
ReducedGain(c) ==
    IF Len(c) < 2 THEN 0
    ELSE IF c[1] = c[2] THEN 2 * c[1] + ReducedGain(SubSeq(c, 3, Len(c)))
    ELSE ReducedGain(Tail(c))

NonZero(row) == SelectSeq(row, LAMBDA x : x # 0)

PadRight(c, n) == [k \in 1..n |-> IF k <= Len(c) THEN c[k] ELSE 0]

\* C3: merge_row_left returns the row with zeros removed, adjacent equal pairs
\* merged left to right (each tile in at most one merge), right-padded with
\* zeros to the row's length, and the sum of the merged tiles' new values;
\* [2,2,0,0] gives [4,0,0,0] gain 4, [4,4,8,8] gives [8,16,0,0] gain 24 and
\* [2,0,2,2] gives [4,2,0,0] gain 4.
C3_RowReduction ==
    call.op = "merge_row_left" =>
        /\ Ret(call)[1] = PadRight(Reduced(NonZero(Arg(call))), Len(Arg(call)))
        /\ Ret(call)[2] = ReducedGain(NonZero(Arg(call)))
        /\ Arg(call) = <<2, 2, 0, 0>> => Ret(call) = << <<4, 0, 0, 0>>, 4 >>
        /\ Arg(call) = <<4, 4, 8, 8>> => Ret(call) = << <<8, 16, 0, 0>>, 24 >>
        /\ Arg(call) = <<2, 0, 2, 2>> => Ret(call) = << <<4, 2, 0, 0>>, 4 >>

\* merge_row_left was called on the row whose first merge leaves a tile equal
\* to its new neighbour.
C3_Witness ==
    /\ call.op = "merge_row_left"
    /\ Arg(call) = <<2, 2, 4, 0>>
    /\ Ret(call) = << <<4, 4, 0, 0>>, 4 >>

\* The line of board b that a move in direction d reduces, number k, read
\* from the edge the move points to; Cell gives the cell at position p of it.
Cell(d, k, p) ==
    CASE d = "left"  -> <<k, p>>
      [] d = "right" -> <<k, board_size + 1 - p>>
      [] d = "up"    -> <<p, k>>
      [] d = "down"  -> <<board_size + 1 - p, k>>

Line(b, d, k) == [p \in Idx |-> b[Cell(d, k, p)[1]][Cell(d, k, p)[2]]]

\* The board whose lines, read from the edge a move in direction d points
\* to, are lines.
Place(lines, d) ==
    [i \in Idx |-> [j \in Idx |->
        CASE d = "left"  -> lines[i][j]
          [] d = "right" -> lines[i][board_size + 1 - j]
          [] d = "up"    -> lines[j][i]
          [] d = "down"  -> lines[j][board_size + 1 - i]]]

\* The board after the merges of a move in direction d, every line reduced
\* towards its edge and written back in reading order.
PostMerge(b, d) ==
    Place([k \in Idx |-> PadRight(Reduced(NonZero(Line(b, d, k))), board_size)], d)

\* The sum of the values of the tiles the merges of that move create.
PostMergeGain(b, d) ==
    SumSeq([k \in Idx |-> ReducedGain(NonZero(Line(b, d, k)))])

\* The cells on which the boards b and nb differ.
Changed(b, nb) == {c \in Idx \X Idx : nb[c[1]][c[2]] # b[c[1]][c[2]]}

\* nb is b with exactly one empty cell set to 2 or 4, all other cells equal.
OneSpawn(b, nb) ==
    /\ Cardinality(Changed(b, nb)) = 1
    /\ \A c \in Changed(b, nb) : b[c[1]][c[2]] = 0 /\ nb[c[1]][c[2]] \in {2, 4}

\* C4: when make_move returns True the score grows by the sum of the values
\* of the tiles created by the merges of the move, and the board is the
\* post-merge board with exactly one of its empty cells set to 2 or 4; on a
\* full board with a single pair of equal neighbours the number of tiles
\* is the same before and after.
C4_MergeThenOneSpawn ==
    [][(calls' = calls + 1 /\ IsMakeMove(call') /\ Ret(call') = TRUE)
        => /\ score' = score + PostMergeGain(board, Arg(call'))
           /\ OneSpawn(PostMerge(board, Arg(call')), board')
           /\ (EmptyCells(board) = {} /\ PairCount(board) = 1)
                 => TileCount(board') = TileCount(board)]_vars

\* A successful move on a full board with a single pair of equal
\* neighbours: the pair merged and the tile spawned into the cell that freed.
C4_Witness ==
    /\ IsMakeMove(call) /\ Ret(call) = TRUE
    /\ EmptyCells(call.before) = {} /\ PairCount(call.before) = 1
    /\ TileCount(board) = board_size * board_size
    /\ score = ScoreOf(call.before) + 16

Full(b) == \A i \in Idx : \A j \in Idx : b[i][j] # 0

NoEqualNeighbours(b) ==
    \A i \in Idx : \A j \in Idx :
        /\ j < board_size => b[i][j] # b[i][j + 1]
        /\ i < board_size => b[i][j] # b[i + 1][j]

SomeMoveChanges(b, s, g) ==
    \E d \in Directions : \E r \in make_move(Game(b, s, g), d) : r.ret = TRUE

C2_EvaluatesAfterstate ==
    evaluated # NotEvaluated => evaluated.board = PostMerge(board, evaluated.direction)


\* The keys of the two tables.
Keys(old, new) == DOMAIN old \cup DOMAIN new

\* Key k holds in table new what it held in table old.
SameEntry(old, new, k) ==
    /\ k \in DOMAIN new <=> k \in DOMAIN old
    /\ k \in DOMAIN old => new[k] = old[k]

\* C6: one TD update changes, in every tuple's table, at most the entry at
\* the tuple's pattern index on the previous afterstate; every other entry
\* is unchanged, the entry at the index on the current afterstate included
\* unless the two indices coincide.
C6_UpdateFrame ==
    [][(pc = "update" /\ pc' = "commit") =>
        \A t \in 1..Len(tuples) :
            LET previous == get_pattern_index(prev_afterstate, tuples[t])
                current == get_pattern_index(best_afterstate, tuples[t])
            IN  /\ \A k \in Keys(weights[t], weights'[t]) \cup {current} :
                      k # previous => SameEntry(weights[t], weights'[t], k)
                /\ DOMAIN weights'[t] = DOMAIN weights[t] \cup {previous}]_vars

\* An update was made on trained weights: in some table the entry of the
\* previous afterstate changed beside an older entry, and the current
\* afterstate has another index.
C6_Witness ==
    /\ pc = "commit" /\ prev_afterstate # None
    /\ \E t \in 1..Len(tuples) :
         LET previous == get_pattern_index(prev_afterstate, tuples[t])
         IN  /\ previous \in DOMAIN weights[t]
             /\ weights[t][previous] # 0
             /\ DOMAIN weights[t] # {previous}
             /\ get_pattern_index(best_afterstate, tuples[t]) # previous

\* The episode numbers of the periodic checkpoints of a weights directory.
PeriodicEpisodes(dir) == {k \in 0..(2 * MaxEpisodes) : PeriodicName(k) \in DOMAIN dir}

OnlyCheckpoints(dir) ==
    \A f \in DOMAIN dir : f = FinalName \/ \E k \in PeriodicEpisodes(dir) : f = PeriodicName(k)

Largest(S) == CHOOSE m \in S : \A k \in S : k <= m

\* C7: a run resumed on a directory holding periodic checkpoints loads the
\* one with the largest episode number ek and trains exactly
\* max(0, requested total - ek) episodes; when that is 0 nothing is trained
\* and nothing is written. With checkpoints 1 and 2 and a total of 4 it
\* trains 2 (the spec's 5000, 10000 and 20000 in units of 5000 episodes).
C7_ResumeTrainsRemainder ==
    (/\ call.op = "run_training" /\ pc = "idle"
     /\ Arg(call).resume
     /\ OnlyCheckpoints(call.before)
     /\ PeriodicEpisodes(call.before) # {})
    => LET ek == Largest(PeriodicEpisodes(call.before))
           remainder == Arg(call).episodes - ek
       IN  /\ played = IF remainder > 0 THEN remainder ELSE 0
           /\ trained = call.before[PeriodicName(ek)].trained + played
           /\ remainder <= 0 => files = call.before
           /\ (PeriodicEpisodes(call.before) = {1, 2} /\ Arg(call).episodes = 4)
                 => played = 2

\* A run resumed on the checkpoints 1 and 2 with a total of 4 has finished.
C7_Witness ==
    /\ call.op = "run_training" /\ pc = "idle"
    /\ Arg(call).resume
    /\ PeriodicEpisodes(call.before) = {1, 2}
    /\ Arg(call).episodes = 4
    /\ played = 2

\* C8: the number in the name of a periodic checkpoint is the number of
\* episodes the weights it holds were trained for, the episodes before a
\* resume included.
C8_CheckpointNumberIsEpisodeCount ==
    \A k \in PeriodicEpisodes(files) : files[PeriodicName(k)].trained = k

\* The exponent sequence of board b along the tuple coords.
Exponents(b, coords) ==
    [p \in 1..Len(coords) |->
        LET v == b[coords[p][1]][coords[p][2]] IN IF v = 0 THEN 0 ELSE Log2(v)]

\* C9: two boards with exponents below max_power have the same pattern index
\* for a tuple if their exponent sequences along the tuple are the same, and
\* different indices if the sequences differ.
C9_IndexInjective ==
    call.op = "get_pattern_index" =>
        \A other \in IndexBoards(tuples[Arg(call)]) :
            (Exponents(other, tuples[Arg(call)]) = Exponents(call.before, tuples[Arg(call)]))
            <=> (get_pattern_index(other, tuples[Arg(call)]) = Ret(call))

\* The index was taken of a board that holds the exponent max_power - 1 and
\* the exponent 1 on the tuple.
C9_Witness ==
    /\ call.op = "get_pattern_index"
    /\ \E p \in 1..4 : Exponents(call.before, tuples[Arg(call)])[p] = max_power - 1
    /\ \E p \in 1..4 : Exponents(call.before, tuples[Arg(call)])[p] = 1

\* The number whose digits in radix r are ds, the first digit the most
\* significant one.
RECURSIVE MostSignificantFirst(_, _)
MostSignificantFirst(ds, r) ==
    IF ds = <<>> THEN 0
    ELSE r * MostSignificantFirst(SubSeq(ds, 1, Len(ds) - 1), r) + ds[Len(ds)]

\* The number whose digits in radix r are ds, the first digit the least
\* significant one.
RECURSIVE LeastSignificantFirst(_, _)
LeastSignificantFirst(ds, r) ==
    IF ds = <<>> THEN 0 ELSE ds[1] + r * LeastSignificantFirst(Tail(ds), r)

\* C10 as stated: the pattern index is the radix-max_power number whose
\* digits are the exponents along the tuple, the first coordinate the most
\* significant digit.
C10_MostSignificantFirst ==
    call.op = "get_pattern_index" =>
        Ret(call) = MostSignificantFirst(Exponents(call.before, tuples[Arg(call)]), max_power)

\* C10 as amended: the pattern index is the radix-max_power number whose
\* digits are the exponents along the tuple, the first coordinate the least
\* significant digit and the last coordinate the most significant one.
C10_LeastSignificantFirst ==
    call.op = "get_pattern_index" =>
        Ret(call) = LeastSignificantFirst(Exponents(call.before, tuples[Arg(call)]), max_power)

\* The index was taken of a board whose exponents along the tuple do not
\* read the same in both directions.
C10_Witness ==
    /\ call.op = "get_pattern_index"
    /\ Exponents(call.before, tuples[Arg(call)]) = <<1, 0, 0, max_power - 1>>
    /\ Ret(call) = 1 + (max_power - 1) * max_power ^ 3


\* get_best_move has returned.
Returned == call.op = "get_best_move" /\ pc = "idle"

\* The directions that change board b.
Changing(b) == {d \in Directions : PostMerge(b, d) # b}

\* The position of direction d in the fixed order of the moves.
Position(d) == CHOOSE i \in 1..Len(MoveOrder) : MoveOrder[i] = d

\* The largest of the values evaluated in the call.
MaxValue == CHOOSE m \in {values[i].value : i \in 1..Len(values)} :
                \A i \in 1..Len(values) : values[i].value <= m

\* C11: get_best_move returns the first direction, in the order up, down,
\* left, right, among the directions that change the board whose evaluated
\* value is the largest value evaluated for those directions.
C11_FirstMaximum ==
    (Returned /\ values # <<>>) =>
        /\ {values[i].direction : i \in 1..Len(values)} = Changing(board)
        /\ \A i \in 1..Len(values) : \A j \in 1..Len(values) :
              i < j => Position(values[i].direction) < Position(values[j].direction)
        /\ \E i \in 1..Len(values) :
              /\ values[i].value = MaxValue
              /\ Ret(call) = values[i].direction
              /\ \A j \in 1..(i - 1) : values[j].value < MaxValue

\* get_best_move has returned the earlier of two directions whose values tie
\* at the maximum.
C11_Witness ==
    /\ Returned /\ Len(values) >= 2
    /\ \E i \in 1..Len(values) : \E j \in 1..Len(values) :
         /\ i < j
         /\ values[i].value = MaxValue /\ values[j].value = MaxValue
         /\ Ret(call) = values[i].direction


\* C12: get_best_move returns None exactly when no direction changes the
\* board, and otherwise one of the directions that change the board.
C12_NoneIffTerminal ==
    Returned =>
        /\ Ret(call) = NoMove <=> Changing(board) = {}
        /\ Changing(board) # {} => Ret(call) \in Changing(board)

\* get_best_move has returned None on a full board without equal neighbours.
C12_Witness ==
    /\ Returned
    /\ Ret(call) = NoMove
    /\ Changing(board) = {} /\ EmptyCells(board) = {}


\* C13: a pass of the for loop over the moves, in get_best_move and in the
\* trainer's selection, leaves the real game's board, score and game_over as
\* they are, and the board it evaluates comes from the move made on that
\* same current board: the afterstate of the move on it plus one random tile.
C13_SimulationIsolated ==
    [][/\ pc = "solver_loop" =>
            /\ game_vars' = game_vars
            /\ evaluated' # NotEvaluated =>
                 OneSpawn(PostMerge(board, MoveOrder[move_i]), evaluated'.board)
       /\ pc = "select" =>
            /\ game_vars' = game_vars
            /\ best_afterstate' # best_afterstate =>
                 OneSpawn(PostMerge(board, MoveOrder[move_i]), best_afterstate')]_vars

\* get_best_move has returned after simulating at least two directions that
\* change the board.
C13_Witness ==
    /\ Returned /\ Len(values) >= 2
    /\ Ret(call) \in Changing(board)
    /\ evaluated # NotEvaluated


\* C14: a call of make_move with a direction other than up, down, left and
\* right fails with an error: it never returns a value as a move does.
C14_InvalidDirectionFails ==
    ~(/\ call.op = "make_move"
      /\ Arg(call) \notin Directions
      /\ Ret(call) \in BOOLEAN)

\* C15: loading a checkpoint is never fatal: when the file is absent or
\* cannot be unpickled, the front end's load_weights and the resume of
\* run_training report it and go on with the initial, empty weight tables.
C15_LoadNeverFatal ==
    /\ (call.op = "load_weights" /\ Ret(call) # "loaded")
          => (Ret(call) \in {"not found", "error"} /\ weights = initial_weights)
    /\ (call.op = "run_training" /\ call.ret # <<>>) => Ret(call) # "raised"
    /\ pc # "aborted"

\* The files of a directory named exactly ntuple_weights_<integer>.<ext>.
Exact(dir) ==
    {f \in DOMAIN dir :
        /\ Len(f) = 3
        /\ f[1] = <<Word("ntuple")>>
        /\ f[2] = <<Word("weights")>>
        /\ Len(f[3]) = 2
        /\ f[3][1].digits}

\* C16: find_latest_checkpoint lets only the files named exactly
\* ntuple_weights_<integer>.<ext> count: its result is the path and the
\* number of the largest of them, and no path when there is none.
C16_OnlyExactNamesCount ==
    call.op = "find_latest_checkpoint" =>
        IF Exact(call.before) = {}
        THEN Ret(call)[1] = None
        ELSE /\ Ret(call)[1] \in Exact(call.before)
             /\ Ret(call)[2] = Ret(call)[1][3][1].n
             /\ \A f \in Exact(call.before) : f[3][1].n <= Ret(call)[2]

\* C17: for every board and each of the four directions, the board make_move
\* has after its merges is the row reduction of each line read from the edge
\* the move points to (left: rows left to right, right: rows right to left,
\* up: columns top to bottom, down: columns bottom to top), written back in
\* the same reading order; the move returns False exactly when that leaves
\* the board as it was, and otherwise the new board is that one plus a tile.
C17_DirectionComposition ==
    IsMakeMove(call) =>
        /\ \A k \in Idx : \A p \in Idx :
              Shift(call.before, Arg(call))[1][Cell(Arg(call), k, p)[1]][Cell(Arg(call), k, p)[2]]
                = PadRight(Reduced(NonZero(Line(call.before, Arg(call), k))), board_size)[p]
        /\ Ret(call) = TRUE =>
              Cardinality(Changed(Shift(call.before, Arg(call))[1], board)) = 1
        /\ (Ret(call) = FALSE /\ has_valid_moves(call.before)) =>
              \A k \in Idx :
                 Line(board, Arg(call), k)
                   = PadRight(Reduced(NonZero(Line(call.before, Arg(call), k))), board_size)

\* A move down that merged a pair of a column towards the bottom edge, where
\* a move up gives another board.
C17_Witness ==
    /\ IsMakeMove(call) /\ Arg(call) = "down" /\ Ret(call) = TRUE
    /\ \E k \in Idx : ReducedGain(NonZero(Line(call.before, "down", k))) > 0
    /\ Shift(call.before, "down")[1] # Shift(call.before, "up")[1]

\* The nonzero tiles of a line are sorted: no tile is followed, anywhere
\* later in the line, by a smaller one (up), or by a larger one (down).
SortedUp(line) ==
    \A p \in Idx : \A q \in Idx :
        (p < q /\ line[p] # 0 /\ line[q] # 0) => line[p] <= line[q]

SortedDown(line) ==
    \A p \in Idx : \A q \in Idx :
        (p < q /\ line[p] # 0 /\ line[q] # 0) => line[p] >= line[q]

\* The rows and the columns of board b, as lines.
LinesOf(b) ==
    [n \in 1..(2 * board_size) |->
        IF n <= board_size THEN b[n] ELSE [j \in Idx |-> b[j][n - board_size]]]

\* The number of rows and columns with at least two tiles, all sorted one way.
OrderedLines(b) ==
    Cardinality({n \in 1..(2 * board_size) :
        /\ Cardinality({p \in Idx : LinesOf(b)[n][p] # 0}) >= 2
        /\ SortedUp(LinesOf(b)[n]) \/ SortedDown(LinesOf(b)[n])})

\* The tile no tile of the board exceeds.
Highest(b) ==
    CHOOSE m \in {b[i][j] : i \in Idx, j \in Idx} :
        \A i \in Idx : \A j \in Idx : b[i][j] <= m

CornerCells == {1, board_size} \X {1, board_size}

\* The weight a table holds for the pattern of board b along its tuple t, 0
\* for a pattern the table has not seen.
LookedUp(w, b, t) ==
    LET index == LeastSignificantFirst(Exponents(b, tuples[t]), max_power)
    IN  IF index \in DOMAIN w[t] THEN w[t][index] ELSE 0

\* C18: evaluate(board) is the sum of the looked-up tuple weights (0 for an
\* unseen index), plus 50 for each empty cell, plus 50 for each row and each
\* column with at least two tiles that are all non-decreasing or all
\* non-increasing, plus the highest tile once if it is at least 64 and some
\* corner holds it, however many corners do (values in units of 1 / Scale).
C18_EvaluateFormula ==
    call.op = "evaluate" =>
        Ret(call) =
            SumSeq([t \in 1..Len(tuples) |-> LookedUp(call.before, Arg(call), t)])
            + Scale * 50 * (board_size * board_size - TileCount(Arg(call)))
            + Scale * 50 * OrderedLines(Arg(call))
            + (IF /\ Highest(Arg(call)) >= 64
                  /\ \E c \in CornerCells : Arg(call)[c[1]][c[2]] = Highest(Arg(call))
               THEN Scale * Highest(Arg(call)) ELSE 0)

\* A board evaluated with 64 as its highest tile in several corners, some
\* empty cells, and a learned weight for one of its patterns.
C18_Witness ==
    /\ call.op = "evaluate"
    /\ Highest(Arg(call)) = 64
    /\ Cardinality({c \in CornerCells : Arg(call)[c[1]][c[2]] = 64}) >= 2
    /\ EmptyCells(Arg(call)) # {}
    /\ \E t \in 1..Len(tuples) : LookedUp(call.before, Arg(call), t) # 0
    /\ OrderedLines(Arg(call)) \in 1..(2 * board_size - 1)

\* C19: after every make_move and every reset, game_over is True exactly
\* when has_valid_moves() is False; a make_move on a game that is over
\* returns False and leaves board, score and flag alone; reset() gives score
\* 0, game_over False and a board with exactly two tiles, each 2 or 4.
C19_GameOverTracksMoves ==
    [][/\ game_over' <=> ~has_valid_moves(board')
       /\ (game_over /\ call'.op = "make_move")
             => (game_vars' = game_vars /\ Ret(call') = FALSE)
       /\ call'.op = "reset"
             => /\ score' = 0
                /\ ~game_over'
                /\ TileCount(board') = 2
                /\ \A i \in Idx : \A j \in Idx : board'[i][j] \in {0, 2, 4}]_vars

\* A move merged the last pair of a full board and the spawned tile left no
\* move: the game is over.
C19_Witness ==
    /\ IsMakeMove(call) /\ Ret(call) = TRUE
    /\ has_valid_moves(call.before)
    /\ game_over /\ ~has_valid_moves(board)

\* C20: the afterstate the training loop carries forward when it commits a
\* move is the real game's board after the merges of that move and before
\* its spawn: right after the commit the real board is that afterstate with
\* exactly one of its empty cells set to 2 or 4, all other cells the same.
C20_PrevIsPreSpawnBoard ==
    [][(pc = "commit" /\ calls' = calls + 1)
          => /\ prev_afterstate' = PostMerge(board, best_move)
             /\ OneSpawn(prev_afterstate', board')]_vars

\* C21: in an episode the weights are updated exactly once before every
\* move made on the real game except the first: with m >= 1 moves made there
\* were m - 1 updates, before the first move of every episode there is no
\* previous afterstate and no update, and none follows the last move of an
\* episode that ends with the game over.
C21_OneUpdatePerLaterMove ==
    /\ pc \in {"select", "episode_end", "for_episode"}
          => updates = (IF moves = 0 THEN 0 ELSE moves - 1)
    /\ pc = "update" => (moves >= 1 /\ updates = moves - 1 /\ prev_afterstate # None)
    /\ pc = "commit" => (updates = moves /\ (moves = 0 <=> prev_afterstate = None))
    /\ (pc \in {"select", "update"} /\ moves = 0) => prev_afterstate = None

\* The second episode is about to make its first move with no update made,
\* after a first episode that ended with the game over, one update short of
\* its moves.
C21_Witness ==
    /\ pc = "commit" /\ episode = 2 /\ trained = 1
    /\ moves = 0 /\ updates = 0 /\ prev_afterstate = None
    /\ weights # SampleWeights

\* The state InitEarly starts from, as train reaches it from reset.
EarlyReached ==
    /\ pc = "select" /\ move_i = 1 /\ moves = 1 /\ updates = 0
    /\ board = EarlyBoard /\ score = 0 /\ ~game_over
    /\ prev_afterstate = EarlyAfterstate
    /\ prev_value = evaluate(weights, EarlyAfterstate)
    /\ weights = initial_weights

\* The reward as stated: no score term, the highest tile of the selected
\* afterstate if it exceeds the highest tile of the real board as the
\* previous move left it, and 10 for each empty cell of the afterstate.
StatedReward ==
    (IF Highest(best_afterstate) > Highest(board) THEN Highest(best_afterstate) ELSE 0)
    + 10 * (board_size * board_size - TileCount(best_afterstate))

\* C22: in every update the reward is 0 for the score, plus the highest
\* tile of the selected afterstate if it strictly exceeds the highest tile of
\* the real game board as the previous move left it, plus 10 times the
\* number of empty cells of the selected afterstate.
C22_RewardAgainstRealBoard ==
    [][(pc = "update" /\ pc' = "commit") =>
          /\ get_reward(score, score, prev_afterstate, best_afterstate) = StatedReward
          /\ weights' = updated_weights(weights, prev_afterstate,
                                        td_error(StatedReward, best_value, prev_value))]_vars

\* GammaDen times reward + gamma * best_value - prev_value of the update
\* about to be made, in units of 1 / Scale: no rounding is involved.
ExactError ==
    GammaDen * Scale * get_reward(score, score, prev_afterstate, best_afterstate)
    + GammaNum * best_value
    - GammaDen * prev_value

\* What the table of tuple t holds for the pattern of board b, 0 if nothing.
Entry(w, b, t) ==
    LET index == LeastSignificantFirst(Exponents(b, tuples[t]), max_power)
    IN  IF index \in DOMAIN w[t] THEN w[t][index] ELSE 0

\* C23: an update adds alpha * (reward + gamma * best_value - prev_value) to
\* the weight of every tuple at the tuple's pattern index on the previous
\* afterstate (an unseen index counting as 0), once per table and to within
\* the rounding of the fixed-point unit; best_value is the value of the
\* afterstate just selected, and prev_value and prev_afterstate are what the
\* selection before the previous move recorded.
C23_TDUpdateRule ==
    [][/\ (pc = "update" /\ pc' = "commit") =>
            \A t \in 1..Len(tuples) :
               LET added == Entry(weights', prev_afterstate, t)
                              - Entry(weights, prev_afterstate, t)
               IN  /\ AlphaNum * ExactError - AlphaDen * GammaDen * added >= 0
                   /\ AlphaNum * ExactError - AlphaDen * GammaDen * added
                         < (AlphaNum + AlphaDen) * GammaDen
                   /\ Cardinality(DOMAIN weights'[t])
                         <= Cardinality(DOMAIN weights[t]) + 1
       /\ (pc = "commit" /\ pc' # "commit") =>
            (prev_value' = best_value /\ prev_afterstate' = best_afterstate)]_vars

\* A second update was made, with the value the move before recorded, and
\* it changed an entry an earlier update had left.
C23_Witness ==
    /\ pc = "commit" /\ calls = 1 /\ updates = moves
    /\ \E t \in 1..Len(tuples) :
         /\ Entry(weights, prev_afterstate, t) # 0
         /\ Entry(SampleWeights, prev_afterstate, t) # 0
         /\ Entry(weights, prev_afterstate, t) # Entry(SampleWeights, prev_afterstate, t)

\* C24: whenever a run is killed while it writes a checkpoint, every file
\* under a periodic checkpoint name holds a complete pickle, and so does the
\* checkpoint a later resume finds as the latest.
C24_CheckpointsStayComplete ==
    /\ \A k \in PeriodicEpisodes(files) : files[PeriodicName(k)].pickled
    /\ \A found \in find_latest_checkpoint(files) :
          found[1] # None => files[found[1]].pickled

====
